---- MODULE Spec2Model ----
(***************************************************************************)
(* Folder-matching workflow of disc_matcher.py (class DiscMatcherApp).      *)
(*                                                                         *)
(* Threads: the Tk UI thread (user commands and after()/after_idle()       *)
(* callbacks, one at a time), batch workers running process_folders, and   *)
(* the helper threads a single-entry re-search starts (do_search,          *)
(* process_release, wait_for_selection, process_selected).                 *)
(* Shared, unsynchronised state: album_folders, selection_dialog_active,   *)
(* selection_result, waiting_for_selection.                                *)
(***************************************************************************)
EXTENDS Integers, Sequences, FiniteSets, TLC

\* ---------------------------------------------------------------- bounds
NumFolders == 2     \* immediate subdirectories of the scanned root
MaxResults == 2     \* largest number of results one catalog search returns
MaxCommands == 2    \* main-window commands the user issues in one run
MaxActions == 3     \* user actions in one run: commands and dialog buttons
MaxTimeouts == 1    \* waits that run into their 300 s timeout in one run
MaxPending == 2     \* callbacks queued on the UI thread at one time

\* ------------------------------------------------------------ value space
\* A candidate is <<o, k>>: the k-th catalog result for the album of the
\* folder originally named o.  AlbumInfo(candidate) is identified with the
\* candidate; NoInfo is Python's None.
NoInfo == <<>>
NoGrab == <<>>
Cands == (1..NumFolders) \X (1..MaxResults)

\* AlbumInfo.get_suggested_folder_name, abstracted to one name per record;
\* folder names below 100 are the names found by the scan
SuggestedName(c) == 100 + 10 * c[1] + c[2]

\* the album a folder name asks the catalog for (DiscogsAPI.search(name))
Origin(name) == IF name < 100 THEN name ELSE (name - 100) \div 10

Batches == 1..MaxCommands
Singles == 1..MaxCommands
\* workflow identifiers: batch worker b is b, single-entry re-search s is 10+s
SingleId(s) == 10 + s
\* every directory name the model can produce
Names == (1..NumFolders) \cup {SuggestedName(c) : c \in Cands}

VARIABLES
  registry,   \* self.album_folders: Seq of [path, name, info]
  status,     \* status tag of the tree row of each registry index
  disk,       \* names of the directories that exist under the root
  meta,       \* album_info.json of each directory name (NoInfo: no file)
  flag,       \* self.selection_dialog_active
  result,     \* self.selection_result
  ev,         \* self.waiting_for_selection (threading.Event)
  uiq,        \* callbacks queued on the UI thread by after()/after_idle()
  prompts,    \* open selection dialogs: [w, i, o, m]
  grab,       \* <<w, i>> of the dialog holding the Tk grab, or NoGrab
  uiReq,      \* dialog whose refresh_search blocks the UI thread, or NoGrab
  bw,         \* batch workers: locals of process_folders
  ss,         \* single-entry re-searches: locals of single_search and helpers
  cmds,       \* number of main-window commands issued so far
  clicks,     \* number of user actions (commands, dialog buttons) so far
  timeouts,   \* number of waits that have timed out so far
  verdicts,   \* history: <<w, i, c>> the user confirmed c (NoInfo: pressed
              \* cancel) in prompt (w, i), until workflow w reads the slot
  unreported, \* history: <<w, i>> a file-system error hit workflow w at
              \* entry i and no message has been shown for it
  call,       \* a call of one function of the module: [fn, in]
  ret         \* what the call returned: [done, val]

vars == <<registry, status, disk, meta, flag, result, ev, uiq, prompts, grab,
          uiReq, bw, ss, cmds, clicks, timeouts, verdicts, unreported,
          call, ret>>

shared == <<flag, result, ev>>
hist == <<timeouts, verdicts, unreported>>
files == <<disk, meta>>
dialogs == <<prompts, grab, uiReq>>
pure == <<call, ret>>
\* the state of the application object
app == <<registry, status, disk, meta, flag, result, ev, uiq, prompts, grab,
         uiReq, bw, ss, cmds, clicks, timeouts, verdicts, unreported>>

\* no function call is being followed
NoCall == [fn |-> "none", in |-> <<>>]
NotReturned == [done |-> FALSE, val |-> <<>>]

\* ---------------------------------------------------------------- helpers
Entry(p, n, a) == [path |-> p, name |-> n, info |-> a]

\* a queued UI callback
Event(op, w, i, st, a) == [op |-> op, w |-> w, i |-> i, st |-> st, a |-> a]

Key(d) == <<d.w, d.i>>

\* the main window takes user commands: no dialog holds the grab
\* (dialog.grab_set()), the UI thread is not blocked in a request, and the
\* callbacks queued before the user's event have run (Tk serves its event
\* queue in order)
Interactive == grab = NoGrab /\ uiReq = NoGrab /\ uiq = <<>>

\* the user can operate dialog d: it holds the grab, or nothing does
Usable(d) == uiReq = NoGrab /\ (grab = NoGrab \/ grab = Key(d))

\* the user presses a button of dialog d
Click(d) ==
  /\ d \in prompts
  /\ Usable(d)
  /\ uiq = <<>>
  /\ clicks < MaxActions
  /\ clicks' = clicks + 1

\* dialog.destroy(): the window goes, and with it the grab if it held it
Destroy(d) ==
  /\ prompts' = prompts \ {d}
  /\ grab' = IF grab = Key(d) THEN NoGrab ELSE grab

\* locals of a workflow; to, conf, canc are history: the wait timed out, the
\* user had confirmed conf / pressed cancel in its prompt when it read the slot
IdleBatch == [pc |-> "idle", idx |-> 0, path |-> 0, name |-> 0, n |-> 0,
              sel |-> NoInfo, to |-> FALSE, conf |-> NoInfo, canc |-> FALSE]
IdleSingle == [pc |-> "idle", idx |-> 0, path |-> 0, name |-> 0,
               existing |-> NoInfo, n |-> 0, sel |-> NoInfo, to |-> FALSE,
               conf |-> NoInfo, canc |-> FALSE]

\* a worker between two iterations: only the loop index is live
Sleeping(i) == [IdleBatch EXCEPT !.pc = "sleep", !.idx = i]

\* root.after(0, callback) / root.after_idle(callback) from any thread
Post(e) ==
  /\ Len(uiq) < MaxPending
  /\ uiq' = Append(uiq, e)

\* waiting_for_selection.set(): the flag is set and every thread blocked in
\* wait() is notified; a later clear() does not take the notification back
Notify ==
  /\ ev' = TRUE
  /\ bw' = [b \in Batches |->
             IF bw[b].pc = "blocked" THEN [bw[b] EXCEPT !.pc = "woken"] ELSE bw[b]]
  /\ ss' = [s \in Singles |->
             IF ss[s].pc = "blocked" THEN [ss[s] EXCEPT !.pc = "woken"] ELSE ss[s]]

\* what the user did in prompt (w, i)
Confirmed(w, i) ==
  IF \E c \in Cands : <<w, i, c>> \in verdicts
  THEN CHOOSE c \in Cands : <<w, i, c>> \in verdicts
  ELSE NoInfo
Cancelled(w, i) == <<w, i, NoInfo>> \in verdicts
Forget(w, i) == {v \in verdicts : ~(v[1] = w /\ v[2] = i)}

\* first registry index whose display name is the selected row's
FirstIdx(name) ==
  CHOOSE j \in 1..Len(registry) :
    /\ registry[j].name = name
    /\ \A k \in 1..(j - 1) : registry[k].name # name

\* open(info_path, 'w') succeeds only in an existing directory, and may
\* fail there too (ok = FALSE)
PersistOk(path, ok) == ok /\ path \in disk

\* ------------------------------------------------------------------- Init
\* scan_folders of a root with NumFolders unprocessed subdirectories
AppInit ==
  /\ registry = [i \in 1..NumFolders |-> Entry(i, i, NoInfo)]
  /\ status = [i \in 1..NumFolders |-> "pending"]
  /\ disk = 1..NumFolders
  /\ meta = [d \in Names |-> NoInfo]
  /\ flag = FALSE
  /\ result = NoInfo
  /\ ev = FALSE
  /\ uiq = <<>>
  /\ prompts = {}
  /\ grab = NoGrab
  /\ uiReq = NoGrab
  /\ bw = [b \in Batches |-> IdleBatch]
  /\ ss = [s \in Singles |-> IdleSingle]
  /\ cmds = 0
  /\ clicks = 0
  /\ timeouts = 0
  /\ verdicts = {}
  /\ unreported = {}

Init ==
  /\ AppInit
  /\ call = NoCall
  /\ ret = NotReturned

\* a wait(timeout=300) runs into its timeout; in 300 s the UI thread has
\* served every callback queued before
TimeoutElapses ==
  /\ uiq = <<>>
  /\ uiReq = NoGrab
  /\ timeouts < MaxTimeouts
  /\ timeouts' = timeouts + 1

\* a main-window command is issued
Command ==
  /\ Interactive
  /\ cmds < MaxCommands
  /\ cmds' = cmds + 1
  /\ clicks < MaxActions
  /\ clicks' = clicks + 1

\* ------------------------------------------------------- batch: UI command
\* start_processing: no check of self.processing_thread; a thread per click
StartProcessing(b) ==
  /\ Command
  /\ Len(registry) > 0
  /\ bw[b].pc = "idle"
  /\ \A c \in Batches : c < b => bw[c].pc # "idle"
  /\ bw' = [bw EXCEPT ![b].pc = "iter"]
  /\ UNCHANGED <<registry, status, files, shared, uiq, dialogs, ss, hist>>
  /\ UNCHANGED pure

\* --------------------------------------------------- batch: process_folders
\* the loop as it would be without `if album_info: continue`
BatchIterAll(b) ==
  /\ bw[b].pc = "iter"
  /\ LET i == bw[b].idx + 1 IN
     IF i > Len(registry)
     THEN /\ bw' = [bw EXCEPT ![b].pc = "done"]
          /\ UNCHANGED uiq
     ELSE /\ bw' = [bw EXCEPT ![b] = [IdleBatch EXCEPT
                                       !.pc = "search", !.idx = i,
                                       !.path = registry[i].path,
                                       !.name = registry[i].name]]
          /\ Post(Event("status", b, i, "searching", NoInfo))
  /\ UNCHANGED <<registry, status, files, shared, dialogs, ss, cmds, clicks, hist>>
  /\ UNCHANGED pure

\* for idx, (folder_path, folder_name, album_info) in enumerate(...):
\*   skip entries with a record; otherwise queue status 'searching' and
\*   issue the search
BatchIter(b) ==
  /\ bw[b].pc = "iter"
  /\ LET i == bw[b].idx + 1 IN
     IF i > Len(registry)
     THEN /\ bw' = [bw EXCEPT ![b].pc = "done"]
          /\ UNCHANGED uiq
     ELSE IF registry[i].info # NoInfo
     THEN /\ bw' = [bw EXCEPT ![b].idx = i]
          /\ UNCHANGED uiq
     ELSE /\ bw' = [bw EXCEPT ![b] = [IdleBatch EXCEPT
                                       !.pc = "search", !.idx = i,
                                       !.path = registry[i].path,
                                       !.name = registry[i].name]]
          /\ Post(Event("status", b, i, "searching", NoInfo))
  /\ UNCHANGED <<registry, status, files, shared, dialogs, ss, cmds, clicks, hist>>
  /\ UNCHANGED pure

\* results = self.discogs_api.search(folder_name) returns n results
BatchSearchReturn(b, n) ==
  /\ bw[b].pc = "search"
  /\ bw' = [bw EXCEPT ![b].n = n,
                      ![b].sel = IF n = 1 THEN <<Origin(bw[b].name), 1>> ELSE NoInfo,
                      ![b].pc = IF n = 1 THEN "accept1" ELSE "waitflag"]
  /\ UNCHANGED <<registry, status, files, shared, uiq, dialogs, ss, cmds, clicks, hist>>
  /\ UNCHANGED pure

\* while self.selection_dialog_active: time.sleep(0.1)   (loop exit)
BatchWaitFlag(b) ==
  /\ bw[b].pc = "waitflag"
  /\ ~flag
  /\ bw' = [bw EXCEPT ![b].pc = "setflag"]
  /\ UNCHANGED <<registry, status, files, shared, uiq, dialogs, ss, cmds, clicks, hist>>
  /\ UNCHANGED pure

\* self.selection_dialog_active = True
BatchSetFlag(b) ==
  /\ bw[b].pc = "setflag"
  /\ flag' = TRUE
  /\ bw' = [bw EXCEPT ![b].pc = "post"]
  /\ UNCHANGED <<registry, status, files, result, ev, uiq, dialogs, ss, cmds, clicks, hist>>
  /\ UNCHANGED pure

\* self.selection_result = None; self.waiting_for_selection.clear();
\* self.root.after_idle(show_selection_dialog)
BatchPost(b) ==
  /\ bw[b].pc = "post"
  /\ result' = NoInfo
  /\ ev' = FALSE
  /\ Post(Event("show", b, bw[b].idx, "",
                              <<Origin(bw[b].name), bw[b].n>>))
  /\ bw' = [bw EXCEPT ![b].pc = "wait"]
  /\ UNCHANGED <<registry, status, files, flag, dialogs, ss, cmds, clicks, hist>>
  /\ UNCHANGED pure

\* self.waiting_for_selection.wait(timeout=300) is entered: it returns at
\* once if the event is set, else the thread blocks
BatchWait(b) ==
  /\ bw[b].pc = "wait"
  /\ bw' = [bw EXCEPT ![b].pc = IF ev THEN "woken" ELSE "blocked"]
  /\ UNCHANGED <<registry, status, files, shared, uiq, dialogs, ss, cmds, clicks, hist>>
  /\ UNCHANGED pure

\* wait() returns after a notification
BatchWake(b) ==
  /\ bw[b].pc = "woken"
  /\ bw' = [bw EXCEPT ![b].pc = "read"]
  /\ UNCHANGED <<registry, status, files, shared, uiq, dialogs, ss, cmds, clicks, hist>>
  /\ UNCHANGED pure

\* ... or the 300 s elapse without one
BatchTimeout(b) ==
  /\ bw[b].pc = "blocked"
  /\ TimeoutElapses
  /\ bw' = [bw EXCEPT ![b].pc = "read", ![b].to = TRUE]
  /\ UNCHANGED <<registry, status, files, shared, uiq, dialogs, ss, cmds, clicks,
                 verdicts, unreported>>
  /\ UNCHANGED pure

\* if self.selection_result: ... else: status not_found / pending
BatchRead(b) ==
  /\ bw[b].pc = "read"
  /\ verdicts' = Forget(b, bw[b].idx)
  /\ IF result # NoInfo
     THEN /\ bw' = [bw EXCEPT ![b].sel = result, ![b].pc = "accept2",
                              ![b].conf = Confirmed(b, bw[b].idx),
                              ![b].canc = Cancelled(b, bw[b].idx)]
          /\ UNCHANGED uiq
     ELSE /\ bw' = [bw EXCEPT ![b].pc = "clearflag",
                              ![b].conf = Confirmed(b, bw[b].idx),
                              ![b].canc = Cancelled(b, bw[b].idx)]
          /\ Post(Event("status", b, bw[b].idx,
                                      IF bw[b].n = 0 THEN "not_found" ELSE "pending",
                                      NoInfo))
  /\ UNCHANGED <<registry, status, files, shared, dialogs, ss, cmds, clicks, timeouts, unreported>>
  /\ UNCHANGED pure

\* album_info = self.process_release(...) returned: attach, queue
\* status 'completed'; after a prompt also self.selection_result = None.
\* An exception of process_release is not caught in process_folders: the
\* worker thread ends.
BatchAccept(b, ok) ==
  /\ bw[b].pc \in {"accept1", "accept2"}
  /\ IF PersistOk(bw[b].path, ok)
     THEN /\ meta' = [meta EXCEPT ![bw[b].path] = bw[b].sel]
          /\ registry' = [registry EXCEPT ![bw[b].idx] =
                            Entry(bw[b].path, bw[b].name, bw[b].sel)]
          /\ Post(Event("status", b, bw[b].idx, "completed", bw[b].sel))
          /\ result' = IF bw[b].pc = "accept2" THEN NoInfo ELSE result
          /\ bw' = [bw EXCEPT ![b] = IF bw[b].pc = "accept2"
                                     THEN [bw[b] EXCEPT !.pc = "clearflag"]
                                     ELSE Sleeping(bw[b].idx)]
          /\ UNCHANGED unreported
     ELSE /\ bw' = [bw EXCEPT ![b].pc = "crashed"]
          /\ unreported' = unreported \cup {<<b, bw[b].idx>>}
          /\ UNCHANGED <<meta, registry, uiq, result>>
  /\ UNCHANGED <<status, disk, flag, ev, dialogs, ss, cmds, clicks, timeouts, verdicts>>
  /\ UNCHANGED pure

\* the end of the prompt branch followed at once by the next iteration
BatchClearFlagNoDelay(b) ==
  /\ bw[b].pc = "clearflag"
  /\ flag' = FALSE
  /\ bw' = [bw EXCEPT ![b] = [Sleeping(bw[b].idx) EXCEPT !.pc = "iter"]]
  /\ UNCHANGED <<registry, status, files, result, ev, uiq, dialogs, ss, cmds, clicks, hist>>
  /\ UNCHANGED pure

\* the end of the prompt branch without the reset of the flag
BatchKeepFlag(b) ==
  /\ bw[b].pc = "clearflag"
  /\ bw' = [bw EXCEPT ![b] = Sleeping(bw[b].idx)]
  /\ UNCHANGED <<registry, status, files, shared, uiq, dialogs, ss, cmds, clicks, hist>>
  /\ UNCHANGED pure

\* self.selection_dialog_active = False
BatchClearFlag(b) ==
  /\ bw[b].pc = "clearflag"
  /\ flag' = FALSE
  /\ bw' = [bw EXCEPT ![b] = Sleeping(bw[b].idx)]
  /\ UNCHANGED <<registry, status, files, result, ev, uiq, dialogs, ss, cmds, clicks, hist>>
  /\ UNCHANGED pure

\* time.sleep(1.2)
BatchDelay(b) ==
  /\ bw[b].pc = "sleep"
  /\ bw' = [bw EXCEPT ![b].pc = "iter"]
  /\ UNCHANGED <<registry, status, files, shared, uiq, dialogs, ss, cmds, clicks, hist>>
  /\ UNCHANGED pure

\* ------------------------------------------------ UI thread: queued callbacks
UiReady == uiReq = NoGrab /\ uiq # <<>>

\* update_tree_item(idx, status=...) queued by a batch worker
UpdateTreeItem ==
  /\ UiReady
  /\ Head(uiq).op = "status"
  /\ status' = [status EXCEPT ![Head(uiq).i] = Head(uiq).st]
  /\ uiq' = Tail(uiq)
  /\ UNCHANGED <<registry, files, shared, dialogs, bw, ss, cmds, clicks, hist>>
  /\ UNCHANGED pure

\* show_selection_dialog(idx, results, query) queued by a batch worker:
\* a Toplevel with grab_set(); it is not tied to the waiting worker
ShowSelectionDialog ==
  /\ UiReady
  /\ Head(uiq).op = "show"
  /\ LET e == Head(uiq)
         d == [w |-> e.w, i |-> e.i, o |-> e.a[1], m |-> e.a[2]] IN
     /\ prompts' = prompts \cup {d}
     /\ grab' = Key(d)
  /\ uiq' = Tail(uiq)
  /\ UNCHANGED <<registry, status, files, shared, uiReq, bw, ss, cmds, clicks, hist>>
  /\ UNCHANGED pure

\* _handle_single_search_results(idx, folder_path, folder_name, existing, r)
HandleSingleSearchResults(s) ==
  /\ uiReq = NoGrab
  /\ \/ /\ ss[s].pc = "results"
        /\ uiq # <<>>
        /\ Head(uiq).op = "results"
        /\ Head(uiq).w = SingleId(s)
        /\ uiq' = Tail(uiq)
     \/ /\ ss[s].pc = "retry"      \* the after(100, ...) timer fires
        /\ UNCHANGED uiq
  /\ IF ss[s].n = 1
     THEN \* threading.Thread(target=process_release).start()
          /\ ss' = [ss EXCEPT ![s].pc = "accept1",
                              ![s].sel = <<Origin(ss[s].name), 1>>]
          /\ UNCHANGED <<shared, dialogs>>
     ELSE IF flag
     THEN \* self.root.after(100, ...): try again later
          /\ ss' = [ss EXCEPT ![s].pc = "retry"]
          /\ UNCHANGED <<shared, dialogs>>
     ELSE LET d == [w |-> SingleId(s), i |-> ss[s].idx,
                    o |-> Origin(ss[s].name), m |-> ss[s].n] IN
          /\ flag' = TRUE
          /\ result' = NoInfo
          /\ ev' = FALSE
          /\ prompts' = prompts \cup {d}
          /\ grab' = Key(d)
          /\ ss' = [ss EXCEPT ![s].pc = "wait"]
          /\ UNCHANGED uiReq
  /\ UNCHANGED <<registry, status, files, bw, cmds, clicks, hist>>
  /\ UNCHANGED pure

\* _handle_single_search_selection(idx, folder_path, folder_name, existing, r)
HandleSingleSearchSelection(s) ==
  /\ UiReady
  /\ Head(uiq).op = "selection"
  /\ Head(uiq).w = SingleId(s)
  /\ uiq' = Tail(uiq)
  /\ verdicts' = Forget(SingleId(s), ss[s].idx)
  /\ IF result # NoInfo
     THEN \* threading.Thread(target=process_selected).start()
          /\ ss' = [ss EXCEPT ![s].pc = "readsel",
                              ![s].conf = Confirmed(SingleId(s), ss[s].idx),
                              ![s].canc = Cancelled(SingleId(s), ss[s].idx)]
          /\ UNCHANGED <<status, flag>>
     ELSE /\ status' = [status EXCEPT ![ss[s].idx] =
                          IF ss[s].n = 0 THEN "not_found"
                          ELSE IF ss[s].existing # NoInfo THEN "completed"
                          ELSE "pending"]
          /\ flag' = FALSE
          /\ ss' = [ss EXCEPT ![s].pc = "done",
                              ![s].conf = Confirmed(SingleId(s), ss[s].idx),
                              ![s].canc = Cancelled(SingleId(s), ss[s].idx)]
  /\ UNCHANGED <<registry, files, result, ev, dialogs, bw, cmds, clicks, timeouts, unreported>>
  /\ UNCHANGED pure

\* _update_single_search_success(idx, folder_path, folder_name, album_info)
UpdateSingleSearchSuccess(s) ==
  /\ UiReady
  /\ Head(uiq).op = "success"
  /\ Head(uiq).w = SingleId(s)
  /\ registry' = [registry EXCEPT ![ss[s].idx] =
                    Entry(ss[s].path, ss[s].name, Head(uiq).a)]
  /\ status' = [status EXCEPT ![ss[s].idx] = "completed"]
  /\ ss' = [ss EXCEPT ![s].pc = "done"]
  /\ uiq' = Tail(uiq)
  /\ UNCHANGED <<files, shared, dialogs, bw, cmds, clicks, hist>>
  /\ UNCHANGED pure

\* _handle_single_search_error(idx, existing_info, error): restore the row,
\* messagebox.showerror
HandleSingleSearchError(s) ==
  /\ UiReady
  /\ Head(uiq).op = "error"
  /\ Head(uiq).w = SingleId(s)
  /\ status' = [status EXCEPT ![ss[s].idx] =
                  IF ss[s].existing # NoInfo THEN "completed" ELSE "pending"]
  /\ unreported' = unreported \ {<<SingleId(s), ss[s].idx>>}
  /\ ss' = [ss EXCEPT ![s].pc = "done"]
  /\ uiq' = Tail(uiq)
  /\ UNCHANGED <<registry, files, shared, dialogs, bw, cmds, clicks, timeouts, verdicts>>
  /\ UNCHANGED pure

\* --------------------------------------- single-entry re-search: its threads
\* single_search: the row is marked searching and do_search is started
SingleSearch(s, row) ==
  /\ Command
  /\ ss[s].pc = "idle"
  /\ \A t \in Singles : t < s => ss[t].pc # "idle"
  /\ LET i == FirstIdx(registry[row].name) IN
     /\ status' = [status EXCEPT ![i] = "searching"]
     /\ ss' = [ss EXCEPT ![s] = [IdleSingle EXCEPT
                                 !.pc = "search", !.idx = i,
                                 !.path = registry[i].path,
                                 !.name = registry[i].name,
                                 !.existing = registry[i].info]]
  /\ UNCHANGED <<registry, files, shared, uiq, dialogs, bw, hist>>
  /\ UNCHANGED pure

\* do_search: results = self.discogs_api.search(folder_name);
\* root.after(0, _handle_single_search_results)
SingleSearchReturn(s, n) ==
  /\ ss[s].pc = "search"
  /\ ss' = [ss EXCEPT ![s].n = n, ![s].pc = "results"]
  /\ Post(Event("results", SingleId(s), ss[s].idx, "", NoInfo))
  /\ UNCHANGED <<registry, status, files, shared, dialogs, bw, cmds, clicks, hist>>
  /\ UNCHANGED pure

\* wait_for_selection: wait(timeout=300) is entered
SingleWait(s) ==
  /\ ss[s].pc = "wait"
  /\ ss' = [ss EXCEPT ![s].pc = IF ev THEN "woken" ELSE "blocked"]
  /\ UNCHANGED <<registry, status, files, shared, uiq, dialogs, bw, cmds, clicks, hist>>
  /\ UNCHANGED pure

\* wait() returns after a notification:
\* root.after(0, _handle_single_search_selection)
SingleWake(s) ==
  /\ ss[s].pc = "woken"
  /\ ss' = [ss EXCEPT ![s].pc = "selection"]
  /\ Post(Event("selection", SingleId(s), ss[s].idx, "", NoInfo))
  /\ UNCHANGED <<registry, status, files, shared, dialogs, bw, cmds, clicks, hist>>
  /\ UNCHANGED pure

\* ... or after 300 s without one
SingleTimeout(s) ==
  /\ ss[s].pc = "blocked"
  /\ TimeoutElapses
  /\ ss' = [ss EXCEPT ![s].pc = "selection", ![s].to = TRUE]
  /\ Post(Event("selection", SingleId(s), ss[s].idx, "", NoInfo))
  /\ UNCHANGED <<registry, status, files, shared, dialogs, bw, cmds, clicks,
                 verdicts, unreported>>
  /\ UNCHANGED pure

\* process_selected: self.process_release(self.selection_result, ...) reads
\* the slot in the new thread; AlbumInfo(None) raises, which is caught
SingleReadSel(s) ==
  /\ ss[s].pc = "readsel"
  /\ IF result # NoInfo
     THEN /\ ss' = [ss EXCEPT ![s].sel = result, ![s].pc = "accept2"]
          /\ UNCHANGED <<uiq, flag>>
     ELSE /\ ss' = [ss EXCEPT ![s].pc = "finishing"]
          /\ Post(Event("error", SingleId(s), ss[s].idx, "", NoInfo))
          /\ flag' = FALSE
  /\ UNCHANGED <<registry, status, files, result, ev, dialogs, bw, cmds, clicks, hist>>
  /\ UNCHANGED pure

\* process_release / process_selected: album_info = self.process_release(...)
\* persists the record in the thread; an exception queues the error callback
\* and, after a prompt, resets the flag.
SingleAccept(s, ok) ==
  /\ ss[s].pc \in {"accept1", "accept2"}
  /\ IF PersistOk(ss[s].path, ok)
     THEN /\ meta' = [meta EXCEPT ![ss[s].path] = ss[s].sel]
          /\ ss' = [ss EXCEPT ![s].pc = IF ss[s].pc = "accept1"
                                        THEN "report1" ELSE "report2"]
          /\ UNCHANGED <<uiq, flag, unreported>>
     ELSE /\ Post(Event("error", SingleId(s), ss[s].idx, "", NoInfo))
          /\ unreported' = unreported \cup {<<SingleId(s), ss[s].idx>>}
          /\ flag' = IF ss[s].pc = "accept2" THEN FALSE ELSE flag
          /\ ss' = [ss EXCEPT ![s].pc = "finishing"]
          /\ UNCHANGED meta
  /\ UNCHANGED <<registry, status, disk, result, ev, dialogs, bw, cmds, clicks, timeouts, verdicts>>
  /\ UNCHANGED pure

\* process_release / process_selected after process_release returned:
\* root.after(0, _update_single_search_success) with the folder_path and
\* folder_name captured by single_search; after a prompt the slot and the
\* flag are reset in the thread.
SingleReport(s) ==
  /\ ss[s].pc \in {"report1", "report2"}
  /\ Post(Event("success", SingleId(s), ss[s].idx, "", ss[s].sel))
  /\ result' = IF ss[s].pc = "report2" THEN NoInfo ELSE result
  /\ flag' = IF ss[s].pc = "report2" THEN FALSE ELSE flag
  /\ ss' = [ss EXCEPT ![s].pc = "finishing"]
  /\ UNCHANGED <<registry, status, files, ev, dialogs, bw, cmds, clicks, hist>>
  /\ UNCHANGED pure

\* -------------------------------------------- the selection dialog's buttons
\* on_select: a row of current_results is selected
OnSelect(d, k) ==
  /\ Click(d)
  /\ k \in 1..d.m
  /\ result' = <<d.o, k>>
  /\ flag' = FALSE
  /\ Destroy(d)
  /\ Notify
  /\ verdicts' = Forget(d.w, d.i) \cup {<<d.w, d.i, <<d.o, k>>>>}
  /\ UNCHANGED <<registry, status, files, uiq, uiReq, cmds, timeouts, unreported>>
  /\ UNCHANGED pure

\* on_cancel
OnCancel(d) ==
  /\ Click(d)
  /\ result' = NoInfo
  /\ flag' = FALSE
  /\ Destroy(d)
  /\ Notify
  /\ verdicts' = Forget(d.w, d.i) \cup {<<d.w, d.i, NoInfo>>}
  /\ UNCHANGED <<registry, status, files, uiq, uiReq, cmds, timeouts, unreported>>
  /\ UNCHANGED pure

\* on_dialog_close (WM_DELETE_WINDOW): only the window goes
OnDialogClose(d) ==
  /\ Click(d)
  /\ Destroy(d)
  /\ UNCHANGED <<registry, status, files, shared, uiq, uiReq, bw, ss, cmds, timeouts, verdicts, unreported>>
  /\ UNCHANGED pure

\* refresh_search: self.discogs_api.search(new_query) on the UI thread
RefreshSearch(d) ==
  /\ Click(d)
  /\ uiReq' = Key(d)
  /\ UNCHANGED <<registry, status, files, shared, uiq, prompts, grab, bw, ss, cmds, timeouts, verdicts, unreported>>
  /\ UNCHANGED pure

\* ... returns m results, which replace current_results
RefreshReturn(d, m) ==
  /\ d \in prompts
  /\ uiReq = Key(d)
  /\ prompts' = (prompts \ {d}) \cup {[d EXCEPT !.m = m]}
  /\ uiReq' = NoGrab
  /\ UNCHANGED <<registry, status, files, shared, uiq, grab, bw, ss, cmds, clicks, hist>>
  /\ UNCHANGED pure

\* --------------------------------------------- manual entry and rename (UI)
\* manual_input / save_manual_input: persist, then attach; an exception is
\* shown in a message box
ManualInput(row, k, ok) ==
  /\ Command
  /\ LET i == FirstIdx(registry[row].name)
         a == <<Origin(registry[i].name), k>> IN
     IF PersistOk(registry[i].path, ok)
     THEN /\ meta' = [meta EXCEPT ![registry[i].path] = a]
          /\ registry' = [registry EXCEPT ![i].info = a]
          /\ status' = [status EXCEPT ![i] = "completed"]
     ELSE \* messagebox.showerror(save_failed)
          UNCHANGED <<meta, registry, status>>
  /\ UNCHANGED <<disk, shared, uiq, dialogs, bw, ss, hist>>
  /\ UNCHANGED pure

\* rename_folder as it would be without the new_path.exists() test
RenameFolderUnchecked(row, ok) ==
  /\ Command
  /\ LET i == FirstIdx(registry[row].name)
         e == registry[i]
         new == SuggestedName(e.info) IN
     /\ e.info # NoInfo
     /\ IF ok /\ e.path \in disk
        THEN /\ disk' = (disk \ {e.path}) \cup {new}
             /\ meta' = [meta EXCEPT ![new] = meta[e.path], ![e.path] = NoInfo]
             /\ registry' = [registry EXCEPT ![i] = Entry(new, new, e.info)]
             /\ status' = [status EXCEPT ![i] = "completed"]
        ELSE UNCHANGED <<disk, meta, registry, status>>
  /\ UNCHANGED <<shared, uiq, dialogs, bw, ss, hist>>
  /\ UNCHANGED pure

\* a rename that writes the moved folder as a new last entry
RenameFolderAppends(row, ok) ==
  /\ Command
  /\ LET i == FirstIdx(registry[row].name)
         e == registry[i]
         new == SuggestedName(e.info) IN
     /\ e.info # NoInfo
     /\ IF new \in disk
        THEN UNCHANGED <<disk, meta, registry, status>>
        ELSE IF ok /\ e.path \in disk
        THEN /\ disk' = (disk \ {e.path}) \cup {new}
             /\ meta' = [meta EXCEPT ![new] = meta[e.path], ![e.path] = NoInfo]
             /\ registry' = [j \in 1..Len(registry) |->
                               IF j < i THEN registry[j]
                               ELSE IF j < Len(registry) THEN registry[j + 1]
                               ELSE Entry(new, new, e.info)]
             /\ status' = [j \in 1..Len(registry) |->
                             IF j < i THEN status[j]
                             ELSE IF j < Len(registry) THEN status[j + 1]
                             ELSE "completed"]
        ELSE UNCHANGED <<disk, meta, registry, status>>
  /\ UNCHANGED <<shared, uiq, dialogs, bw, ss, hist>>
  /\ UNCHANGED pure

\* rename_folder: refuse an existing destination, else Path.rename and
\* update the entry in place; an exception is shown in a message box
RenameFolder(row, ok) ==
  /\ Command
  /\ LET i == FirstIdx(registry[row].name)
         e == registry[i]
         new == SuggestedName(e.info) IN
     /\ e.info # NoInfo
     /\ IF new \in disk
        THEN \* if new_path.exists(): messagebox.showwarning; return
             UNCHANGED <<disk, meta, registry, status>>
        ELSE IF ok /\ e.path \in disk
        THEN /\ disk' = (disk \ {e.path}) \cup {new}
             /\ meta' = [meta EXCEPT ![new] = meta[e.path], ![e.path] = NoInfo]
             /\ registry' = [registry EXCEPT ![i] = Entry(new, new, e.info)]
             /\ status' = [status EXCEPT ![i] = "completed"]
        ELSE \* messagebox.showerror
             UNCHANGED <<disk, meta, registry, status>>
  /\ UNCHANGED <<shared, uiq, dialogs, bw, ss, hist>>
  /\ UNCHANGED pure

\* batch_rename: for idx in range(len(self.album_folders)), in one callback.
\* s is [registry, disk, meta, status] and the three counters after the
\* entries before i; fails is the set of indices whose Path.rename raises.
RECURSIVE RenameLoop(_, _, _)
RenameLoop(i, s, fails) ==
  IF i > Len(s.registry) THEN s
  ELSE LET e == s.registry[i]
           new == SuggestedName(e.info) IN
       IF e.info = NoInfo
       THEN RenameLoop(i + 1, s, fails)              \* continue
       ELSE IF new = e.name \/ new \in s.disk
       THEN RenameLoop(i + 1,
              [s EXCEPT !.skipped_count = s.skipped_count + 1], fails)
       ELSE IF i \in fails \/ e.path \notin s.disk
       THEN RenameLoop(i + 1,
              [s EXCEPT !.error_count = s.error_count + 1], fails)
       ELSE RenameLoop(i + 1,
              [s EXCEPT
                 !.registry = [s.registry EXCEPT ![i] = Entry(new, new, e.info)],
                 !.disk = (s.disk \ {e.path}) \cup {new},
                 !.meta = [s.meta EXCEPT ![new] = s.meta[e.path], ![e.path] = NoInfo],
                 !.status = [s.status EXCEPT ![i] = "completed"],
                 !.rename_count = s.rename_count + 1],
              fails)

\* a batch rename that counts nothing for an entry whose destination exists
RECURSIVE RenameLoopUncounted(_, _, _)
RenameLoopUncounted(i, s, fails) ==
  IF i > Len(s.registry) THEN s
  ELSE LET e == s.registry[i]
           new == SuggestedName(e.info) IN
       IF e.info = NoInfo
       THEN RenameLoopUncounted(i + 1, s, fails)
       ELSE IF new = e.name
       THEN RenameLoopUncounted(i + 1,
              [s EXCEPT !.skipped_count = s.skipped_count + 1], fails)
       ELSE IF new \in s.disk
       THEN RenameLoopUncounted(i + 1, s, fails)
       ELSE IF i \in fails \/ e.path \notin s.disk
       THEN RenameLoopUncounted(i + 1,
              [s EXCEPT !.error_count = s.error_count + 1], fails)
       ELSE RenameLoopUncounted(i + 1,
              [s EXCEPT
                 !.registry = [s.registry EXCEPT ![i] = Entry(new, new, e.info)],
                 !.disk = (s.disk \ {e.path}) \cup {new},
                 !.meta = [s.meta EXCEPT ![new] = s.meta[e.path], ![e.path] = NoInfo],
                 !.status = [s.status EXCEPT ![i] = "completed"],
                 !.rename_count = s.rename_count + 1],
              fails)
batch_rename_uncounted(folders, fails) ==
  RenameLoopUncounted(1, [registry |-> folders.registry, disk |-> folders.disk,
                          meta |-> folders.meta, status |-> folders.status,
                          rename_count |-> 0, skipped_count |-> 0,
                          error_count |-> 0],
                      fails)

\* DiscMatcherApp.batch_rename on the folders [registry, disk, meta, status]:
\* what it leaves and the counts its toast shows
batch_rename(folders, fails) ==
  RenameLoop(1, [registry |-> folders.registry, disk |-> folders.disk,
                 meta |-> folders.meta, status |-> folders.status,
                 rename_count |-> 0, skipped_count |-> 0, error_count |-> 0],
             fails)

BatchRename(fails) ==
  /\ Command
  /\ LET s == batch_rename([registry |-> registry, disk |-> disk,
                            meta |-> meta, status |-> status], fails) IN
     /\ registry' = s.registry
     /\ disk' = s.disk
     /\ meta' = s.meta
     /\ status' = s.status
  /\ UNCHANGED <<shared, uiq, dialogs, bw, ss, hist>>
  /\ UNCHANGED pure

\* ------------------------------------------------------------ specification
Next ==
  \/ \E b \in Batches : StartProcessing(b)
  \/ \E b \in Batches : BatchIter(b)
  \/ \E b \in Batches, n \in 0..MaxResults : BatchSearchReturn(b, n)
  \/ \E b \in Batches : BatchWaitFlag(b)
  \/ \E b \in Batches : BatchSetFlag(b)
  \/ \E b \in Batches : BatchPost(b)
  \/ \E b \in Batches : BatchWait(b)
  \/ \E b \in Batches : BatchWake(b)
  \/ \E b \in Batches : BatchTimeout(b)
  \/ \E b \in Batches : BatchRead(b)
  \/ \E b \in Batches, ok \in BOOLEAN : BatchAccept(b, ok)
  \/ \E b \in Batches : BatchClearFlag(b)
  \/ \E b \in Batches : BatchDelay(b)
  \/ UpdateTreeItem
  \/ ShowSelectionDialog
  \/ \E s \in Singles : HandleSingleSearchResults(s)
  \/ \E s \in Singles : HandleSingleSearchSelection(s)
  \/ \E s \in Singles : UpdateSingleSearchSuccess(s)
  \/ \E s \in Singles : HandleSingleSearchError(s)
  \/ \E s \in Singles, row \in 1..NumFolders : SingleSearch(s, row)
  \/ \E s \in Singles, n \in 0..MaxResults : SingleSearchReturn(s, n)
  \/ \E s \in Singles : SingleWait(s)
  \/ \E s \in Singles : SingleWake(s)
  \/ \E s \in Singles : SingleTimeout(s)
  \/ \E s \in Singles : SingleReadSel(s)
  \/ \E s \in Singles, ok \in BOOLEAN : SingleAccept(s, ok)
  \/ \E s \in Singles : SingleReport(s)
  \/ \E d \in prompts, k \in 1..MaxResults : OnSelect(d, k)
  \/ \E d \in prompts : OnCancel(d)
  \/ \E d \in prompts : OnDialogClose(d)
  \/ \E d \in prompts : RefreshSearch(d)
  \/ \E d \in prompts, m \in 0..MaxResults : RefreshReturn(d, m)
  \/ \E row \in 1..NumFolders, k \in 1..MaxResults, ok \in BOOLEAN : ManualInput(row, k, ok)
  \/ \E row \in 1..NumFolders, ok \in BOOLEAN : RenameFolder(row, ok)
  \/ \E fails \in SUBSET (1..NumFolders) : BatchRename(fails)

Spec == Init /\ [][Next]_vars

\* scan_folders of a root processed in an earlier run: folder 1 holds an
\* album_info.json that loads into a record, the others hold one or none
LoadedInit ==
  /\ \E c \in [1..NumFolders -> Cands \cup {NoInfo}] :
       /\ c[1] # NoInfo
       /\ registry = [i \in 1..NumFolders |-> Entry(i, i, c[i])]
       /\ status = [i \in 1..NumFolders |->
                      IF c[i] = NoInfo THEN "pending" ELSE "completed"]
       /\ meta = [d \in Names |-> IF d \in 1..NumFolders THEN c[d] ELSE NoInfo]
  /\ disk = 1..NumFolders
  /\ flag = FALSE
  /\ result = NoInfo
  /\ ev = FALSE
  /\ uiq = <<>>
  /\ prompts = {}
  /\ grab = NoGrab
  /\ uiReq = NoGrab
  /\ bw = [b \in Batches |-> IdleBatch]
  /\ ss = [s \in Singles |-> IdleSingle]
  /\ cmds = 0
  /\ clicks = 0
  /\ timeouts = 0
  /\ verdicts = {}
  /\ unreported = {}
  /\ call = NoCall
  /\ ret = NotReturned

LoadedSpec == LoadedInit /\ [][Next]_vars

\* the steps that need no user: the threads of the workflows run, the UI
\* thread serves its queue and its after(100) timers, a request on the UI
\* thread returns, and a wait(timeout=300) ends after 300 s at the latest
Scheduled ==
  \/ \E b \in Batches : BatchIter(b)
  \/ \E b \in Batches, n \in 0..MaxResults : BatchSearchReturn(b, n)
  \/ \E b \in Batches : BatchWaitFlag(b)
  \/ \E b \in Batches : BatchSetFlag(b)
  \/ \E b \in Batches : BatchPost(b)
  \/ \E b \in Batches : BatchWait(b)
  \/ \E b \in Batches : BatchWake(b)
  \/ \E b \in Batches : BatchTimeout(b)
  \/ \E b \in Batches : BatchRead(b)
  \/ \E b \in Batches, ok \in BOOLEAN : BatchAccept(b, ok)
  \/ \E b \in Batches : BatchClearFlag(b)
  \/ \E b \in Batches : BatchDelay(b)
  \/ UpdateTreeItem
  \/ ShowSelectionDialog
  \/ \E s \in Singles : HandleSingleSearchResults(s)
  \/ \E s \in Singles : HandleSingleSearchSelection(s)
  \/ \E s \in Singles : UpdateSingleSearchSuccess(s)
  \/ \E s \in Singles : HandleSingleSearchError(s)
  \/ \E s \in Singles, n \in 0..MaxResults : SingleSearchReturn(s, n)
  \/ \E s \in Singles : SingleWait(s)
  \/ \E s \in Singles : SingleWake(s)
  \/ \E s \in Singles : SingleTimeout(s)
  \/ \E s \in Singles : SingleReadSel(s)
  \/ \E s \in Singles, ok \in BOOLEAN : SingleAccept(s, ok)
  \/ \E s \in Singles : SingleReport(s)
  \/ \E d \in prompts, m \in 0..MaxResults : RefreshReturn(d, m)

\* the application with its threads and the UI event loop running: daemon
\* threads are scheduled, mainloop() serves the queue; the user is free
\* never to act
LiveSpec == Init /\ [][Next]_vars /\ WF_vars(Scheduled)

\* ------------------------------------------------- strings and AlbumInfo
\* A string is a sequence of one-character strings; <<>> is ''.
MaxLen == 4      \* longest string given to sanitize_filename

\* all strings over the characters cs of length at most n
RECURSIVE StringsOver(_, _)
StringsOver(cs, n) ==
  IF n = 0 THEN {<<>>}
  ELSE LET shorter == StringsOver(cs, n - 1) IN
       shorter \cup {<<c>> \o t : c \in cs, t \in {u \in shorter : Len(u) = n - 1}}

\* str.lstrip(cs), str.rstrip(cs), str.strip(cs)
RECURSIVE LStrip(_, _)
LStrip(s, cs) ==
  IF s # <<>> /\ Head(s) \in cs THEN LStrip(Tail(s), cs) ELSE s
RECURSIVE RStrip(_, _)
RStrip(s, cs) ==
  IF s # <<>> /\ s[Len(s)] \in cs
  THEN RStrip(SubSeq(s, 1, Len(s) - 1), cs) ELSE s
\* a strip that removes at most one character at each end
StripOnce(s, cs) ==
  LET l == IF s # <<>> /\ Head(s) \in cs THEN Tail(s) ELSE s IN
  IF l # <<>> /\ l[Len(l)] \in cs THEN SubSeq(l, 1, Len(l) - 1) ELSE l
Strip(s, cs) == RStrip(LStrip(s, cs), cs)

\* re.sub(r'[<>:"/\\|?*]', '_', filename)
IllegalChars == {"<", ">", ":", "\"", "/", "\\", "|", "?", "*"}
RECURSIVE ReplaceIllegal(_)
ReplaceIllegal(s) ==
  IF s = <<>> THEN <<>>
  ELSE <<IF Head(s) \in IllegalChars THEN "_" ELSE Head(s)>>
       \o ReplaceIllegal(Tail(s))

\* re.sub(r'_+', '_', sanitized)
RECURSIVE CollapseUnderscores(_)
CollapseUnderscores(s) ==
  IF Len(s) < 2 THEN s
  ELSE IF s[1] = "_" /\ s[2] = "_" THEN CollapseUnderscores(Tail(s))
  ELSE <<s[1]>> \o CollapseUnderscores(Tail(s))

\* AlbumInfo.sanitize_filename
sanitize_filename(filename) ==
  CollapseUnderscores(Strip(ReplaceIllegal(filename), {" ", "."}))

\* s.find(pat): the first index at which pat occurs in s, 0 if none
Find(s, pat) ==
  LET at == {i \in 1..(Len(s) - Len(pat) + 1) :
               SubSeq(s, i, i + Len(pat) - 1) = pat} IN
  IF at = {} THEN 0 ELSE CHOOSE i \in at : \A j \in at : i <= j

\* sep.join(parts)
RECURSIVE Join(_, _)
Join(parts, sep) ==
  IF parts = <<>> THEN <<>>
  ELSE IF Len(parts) = 1 THEN parts[1]
  ELSE parts[1] \o sep \o Join(Tail(parts), sep)

\* s.split(sep)
RECURSIVE Split(_, _)
Split(s, sep) ==
  LET i == Find(s, sep) IN
  IF i = 0 THEN <<s>>
  ELSE <<SubSeq(s, 1, i - 1)>> \o Split(SubSeq(s, i + Len(sep), Len(s)), sep)

\* str.strip(): the whitespace of the modelled alphabet is the space
Whitespace == {" "}
Dash == <<" ", "-", " ">>
CommaSpace == <<",", " ">>

\* AlbumInfo.__init__(release_data); release_data['label'] is abstracted to
\* the list of its names
AlbumInfo(release_data) ==
  LET title == release_data.title
      i == Find(title, Dash) IN
  [release_id |-> release_data.id,
   title |-> title,
   year |-> release_data.year,
   cover_image |-> release_data.cover_image,
   artist |-> IF i > 0 THEN Strip(SubSeq(title, 1, i - 1), Whitespace) ELSE <<>>,
   album_name |-> IF i > 0
                  THEN Strip(SubSeq(title, i + Len(Dash), Len(title)), Whitespace)
                  ELSE title,
   label_names |-> release_data.label,
   catalog_no |-> release_data.catno,
   country |-> release_data.country,
   genre |-> release_data.genre,
   style |-> release_data.style,
   notes |-> <<>>,
   tracklist |-> <<>>,
   images |-> <<>>]

\* the name when the raw title is used as soon as performer and album title
\* are both empty, a year being dropped
TitleWhenUnnamed(self) ==
  IF self.artist = <<>> /\ self.album_name = <<>>
  THEN sanitize_filename(self.title)
  ELSE sanitize_filename(Join(
         (IF self.artist # <<>> THEN <<sanitize_filename(self.artist)>> ELSE <<>>)
         \o (IF self.year # <<>> THEN <<self.year>> ELSE <<>>)
         \o (IF self.album_name # <<>>
             THEN <<sanitize_filename(self.album_name)>> ELSE <<>>), Dash))

\* AlbumInfo.get_suggested_folder_name
get_suggested_folder_name(self) ==
  LET parts ==
        (IF self.artist # <<>> THEN <<sanitize_filename(self.artist)>> ELSE <<>>)
        \o (IF self.year # <<>> THEN <<self.year>> ELSE <<>>)
        \o (IF self.album_name # <<>>
            THEN <<sanitize_filename(self.album_name)>> ELSE <<>>) IN
  IF parts # <<>>
  THEN sanitize_filename(Join(parts, Dash))
  ELSE sanitize_filename(self.title)

\* AlbumInfo.to_dict; the keys of the persisted object are named after the
\* attributes they hold
to_dict(self) ==
  [artist |-> self.artist,
   album_name |-> self.album_name,
   year |-> self.year,
   label |-> Join(self.label_names, CommaSpace),
   catalog_no |-> self.catalog_no,
   genre |-> Join(self.genre, CommaSpace),
   style |-> Join(self.style, CommaSpace),
   notes |-> self.notes,
   release_id |-> self.release_id,
   country |-> self.country,
   tracklist |-> self.tracklist]

\* [x.strip() for x in s.split(',') if x.strip()]
RECURSIVE StripNonEmpty(_)
StripNonEmpty(xs) ==
  IF xs = <<>> THEN <<>>
  ELSE (IF Strip(Head(xs), Whitespace) # <<>>
        THEN <<Strip(Head(xs), Whitespace)>> ELSE <<>>)
       \o StripNonEmpty(Tail(xs))
SplitNames(s) == IF s # <<>> THEN StripNonEmpty(Split(s, <<",">>)) ELSE <<>>

\* AlbumInfo.from_dict
from_dict(data) ==
  LET artist == Strip(data.artist, Whitespace)
      album_name == Strip(data.album_name, Whitespace)
      title == IF artist # <<>> /\ album_name # <<>>
               THEN artist \o Dash \o album_name
               ELSE IF album_name # <<>> THEN album_name
               ELSE IF artist # <<>> THEN artist
               ELSE <<>>
      album_info == AlbumInfo([id |-> data.release_id,
                               title |-> title,
                               year |-> data.year,
                               catno |-> data.catalog_no,
                               country |-> data.country,
                               genre |-> SplitNames(data.genre),
                               style |-> SplitNames(data.style),
                               label |-> SplitNames(data.label),
                               cover_image |-> <<>>]) IN
  [album_info EXCEPT !.notes = data.notes, !.tracklist = data.tracklist]

\* the record as it was before it was saved
KeptInMemory(self) == self

\* json.dump(album_info.to_dict()) in process_release, then
\* AlbumInfo.from_dict(json.load(f)) in scan_folders
RoundTrip(self) == from_dict(to_dict(self))

\* -------------------------------------------------- calls of one function
MaxTitle == 5    \* longest raw title
MaxNames == 2    \* longest genre list

FileNames == StringsOver({"a", " ", ".", "_", ":"}, MaxLen)
\* ' '.join(s.split())
Words(s) == SelectSeq(Split(s, <<" ">>), LAMBDA w : w # <<>>)

\* the query DiscogsAPI.search sends for a folder name
RECURSIVE CleanQuery1(_)
CleanQuery1(s) ==
  IF s = <<>> THEN <<>>
  ELSE (IF Head(s) \in {"[", "]", "(", ")"} THEN <<>>
        ELSE IF Head(s) \in {".", "_", "-"} THEN <<" ">>
        ELSE <<Head(s)>>) \o CleanQuery1(Tail(s))
cleaned_query(query) == Join(Words(CleanQuery1(query)), <<" ">>)

\* what a Python call gives back: a value, or an exception that leaves it
Returns(v) == [raised |-> "", value |-> v]
Raises(exc) == [raised |-> exc, value |-> [kind |-> "None", items |-> <<>>]]
List(items) == [kind |-> "list", items |-> items]
None == [kind |-> "None", items |-> <<>>]

\* exceptions that are requests.exceptions.RequestException; the error of
\* response.json() on a body that is not JSON is one of them only in the
\* releases of the library that wrap it
RequestException(exc, wraps) ==
  \/ exc \in {"ConnectionError", "Timeout", "HTTPError"}
  \/ exc = "JSONDecodeError" /\ wraps

\* the try block of DiscogsAPI.search against one response of the catalog:
\* session.get, raise_for_status, response.json(), data.get('results', [])
SearchBody(response) ==
  CASE response.kind \in {"ConnectionError", "Timeout"} -> Raises(response.kind)
    [] response.kind = "HTTPError" -> Raises("HTTPError")
    [] response.kind = "undecodable" -> Raises("JSONDecodeError")
    [] response.kind = "not_object" -> Raises("AttributeError")
    [] response.kind = "no_results" -> Returns(List(<<>>))
    [] response.kind = "null_results" -> Returns(None)
    [] OTHER -> Returns(List([i \in 1..response.n |-> i]))

\* DiscogsAPI.search
search(query, response) ==
  LET out == SearchBody(response) IN
  [sent |-> cleaned_query(query),
   out |-> IF out.raised # "" /\ RequestException(out.raised, response.wraps)
           THEN Returns(List(<<>>))
           ELSE out]

Queries == {<<"a">>, <<"a", "_", "b">>, <<"[", "a", "]", " ", ".", "b">>}
ResponseKinds ==
  {"ConnectionError", "Timeout", "HTTPError", "undecodable", "not_object",
   "no_results", "null_results", "ok"}
Responses ==
  {[kind |-> k, n |-> n, wraps |-> w] :
     k \in ResponseKinds, n \in 0..MaxResults, w \in BOOLEAN}

\* the try block of scan_folders on one album_info.json: json.load, then
\* AlbumInfo.from_dict; a file that is not JSON fails in json.load, a JSON
\* value that is not an object fails at data.get, an object whose performer
\* is not a string fails at .strip()
LoadLenient(file) ==
  CASE file.kind = "unparseable" -> Raises("JSONDecodeError")
    [] file.kind = "not_object" -> Raises("AttributeError")
    [] file.kind = "bad_field" -> Returns(from_dict([file.data EXCEPT !.artist = <<>>]))
    [] OTHER -> Returns(from_dict(file.data))

LoadAlbumInfo(file) ==
  CASE file.kind = "unparseable" -> Raises("JSONDecodeError")
    [] file.kind = "not_object" -> Raises("AttributeError")
    [] file.kind = "bad_field" -> Raises("AttributeError")
    [] OTHER -> Returns(from_dict(file.data))

\* the loop of scan_folders over root_folder.iterdir(): the registry and
\* the rows of the tree it builds
RECURSIVE ScanLoop(_, _, _)
ScanLoop(entries, album_folders, tree) ==
  IF entries = <<>> THEN [album_folders |-> album_folders, tree |-> tree]
  ELSE
    LET item == Head(entries)
        out == LoadAlbumInfo(item.file)
        loaded == item.file.kind # "absent" /\ out.raised = ""
        album_info == IF loaded THEN out.value ELSE None
        status_code == IF loaded THEN "completed" ELSE "pending" IN
    IF item.is_dir
    THEN ScanLoop(Tail(entries),
                  Append(album_folders,
                         [path |-> item.name, name |-> item.name,
                          album_info |-> album_info]),
                  Append(tree,
                         [name |-> item.name, status |-> status_code,
                          suggested |-> IF album_info # None
                                        THEN get_suggested_folder_name(album_info)
                                        ELSE <<>>]))
    ELSE ScanLoop(Tail(entries), album_folders, tree)

\* DiscMatcherApp.scan_folders: a listing that fails leaves the registry
\* empty and reports the failure
scan_folders(root) ==
  IF root.readable
  THEN LET scanned == ScanLoop(root.entries, <<>>, <<>>) IN
       [album_folders |-> scanned.album_folders, tree |-> scanned.tree,
        failed |-> FALSE]
  ELSE [album_folders |-> <<>>, tree |-> <<>>, failed |-> TRUE]

MaxEntries == 3   \* most entries of the root folder

\* the extension process_release gives the file of a listed image (the
\* modelled alphabet has no upper case, so lower() changes nothing)
Ext(img_url) ==
  IF Find(img_url, <<".", "p", "n", "g">>) > 0 THEN "png"
  ELSE IF Find(img_url, <<".", "g", "i", "f">>) > 0 THEN "gif"
  ELSE IF Find(img_url, <<".", "w", "e", "b", "p">>) > 0 THEN "webp"
  ELSE "jpg"

\* one call of download_image(url, path) during process_release: the
\* request is issued, and attempt k succeeds when oks[k]
Download(st, url, path, oks) ==
  LET k == Len(st.requests) + 1 IN
  [st EXCEPT !.requests = Append(st.requests, url),
             !.ok = oks[k],
             !.saved = IF oks[k] THEN st.saved \cup {path} ELSE st.saved,
             !.writes = IF oks[k]
                        THEN Append(st.writes, [url |-> url, path |-> path])
                        ELSE st.writes,
             !.image_count = IF oks[k] THEN st.image_count + 1
                             ELSE st.image_count]

\* ... followed by downloaded_urls.add(url) when it succeeded
DownloadAndNote(st, url, path, oks) ==
  LET after == Download(st, url, path, oks) IN
  IF after.ok
  THEN [after EXCEPT !.downloaded_urls = after.downloaded_urls \cup {url}]
  ELSE after

InList(x, xs) == \E i \in 1..Len(xs) : xs[i] = x

\* for idx, img_url in enumerate(album_info.images)
RECURSIVE ImageLoop(_, _, _, _)
ImageLoop(album_info, idx, st, oks) ==
  IF idx > Len(album_info.images) THEN st
  ELSE
    LET img_url == album_info.images[idx]
        img_path == IF idx = 1 /\ album_info.cover_image = <<>>
                    THEN [file |-> "cover", n |-> 0, ext |-> "jpg"]
                    ELSE [file |-> "image", n |-> idx, ext |-> Ext(img_url)] IN
    ImageLoop(album_info, idx + 1,
              IF img_url # <<>> /\ img_url \notin st.downloaded_urls
              THEN DownloadAndNote(st, img_url, img_path, oks)
              ELSE st,
              oks)

\* the image downloads of process_release for a record that has its cover
\* URI and the image list of the release details
download_images(album_info, oks) ==
  LET cover == album_info.cover_image
      cover_path == [file |-> "cover", n |-> 0, ext |-> "jpg"]
      st0 == [requests |-> <<>>, ok |-> FALSE, saved |-> {}, writes |-> <<>>,
              image_count |-> 0, downloaded_urls |-> {}]
      st1 == IF cover # <<>> /\ ~InList(cover, album_info.images)
             THEN DownloadAndNote(st0, cover, cover_path, oks)
             ELSE st0
      st2 == ImageLoop(album_info, 1, st1, oks)
      st3 == IF cover # <<>> /\ cover \notin st2.downloaded_urls
             THEN Download(st2, cover, cover_path, oks)
             ELSE st2 IN
  [requests |-> st3.requests, saved |-> st3.saved, writes |-> st3.writes,
   image_count |-> st3.image_count]

MaxImages == 2   \* longest image list of the release details

Titles == StringsOver({"a", " ", "-", ":"}, MaxTitle)
ShortTitles == StringsOver({"a", " ", "-"}, MaxTitle - 1)
Years == {<<>>, <<"1">>}
GenreNames == {<<"a">>, <<"b">>, <<"a", ",", " ", "b">>}
RECURSIVE ListsOver(_, _)
ListsOver(xs, n) ==
  IF n = 0 THEN {<<>>}
  ELSE LET shorter == ListsOver(xs, n - 1) IN
       shorter \cup {<<x>> \o t : x \in xs, t \in {u \in shorter : Len(u) = n - 1}}
Uris == {<<"u">>, <<"v", ".", "p", "n", "g">>}

\* a search result of the catalog
Release(title, year, genre, cover) ==
  [id |-> 1, title |-> title, year |-> year, cover_image |-> cover,
   label |-> <<<<"a">>>>, catno |-> <<"a">>, country |-> <<"a">>,
   genre |-> genre, style |-> <<>>]

\* the records process_release persists: built from a search result, then
\* given notes, track list and image URIs from the release details
Records ==
  {[AlbumInfo(Release(t, <<"1">>, g, c)) EXCEPT
      !.notes = <<"a">>, !.tracklist = <<<<"a">>>>, !.images = im] :
     t \in ShortTitles, g \in ListsOver(GenreNames, MaxNames),
     c \in {<<>>, <<"u">>}, im \in {<<>>, <<<<"v">>>>}}

\* persisted objects: one with every key missing, one written by to_dict
Persisted ==
  {[artist |-> <<>>, album_name |-> <<>>, year |-> <<>>, label |-> <<>>,
    catalog_no |-> <<>>, genre |-> <<>>, style |-> <<>>, notes |-> <<>>,
    release_id |-> 0, country |-> <<>>, tracklist |-> <<>>],
   to_dict(AlbumInfo(Release(<<"a", " ", "-", " ", "b">>, <<"1">>, <<<<"a">>>>, <<>>)))}
MetadataFiles ==
  {[kind |-> k, data |-> d] :
     k \in {"absent", "unparseable", "not_object", "bad_field"},
     d \in {CHOOSE p \in Persisted : p.artist = <<>>}}
  \cup {[kind |-> "object", data |-> d] : d \in Persisted}
DirEntries ==
  {[is_dir |-> TRUE, file |-> f] : f \in MetadataFiles}
  \cup {[is_dir |-> FALSE, file |-> f] : f \in {g \in MetadataFiles : g.kind = "absent"}}
\* the listings of a root folder; an entry is named by its position
Listings ==
  UNION {{[i \in 1..n |-> [name |-> i, is_dir |-> es[i].is_dir, file |-> es[i].file]] :
            es \in [1..n -> DirEntries]} : n \in 0..MaxEntries}
Roots ==
  {[readable |-> TRUE, entries |-> l] : l \in Listings}
  \cup {[readable |-> FALSE, entries |-> <<>>]}

\* a record with a cover URI and an image list, and the outcome of each
\* download attempt in the order they are made
Downloads ==
  {[album_info |-> [cover_image |-> c, images |-> im], oks |-> oks] :
     c \in {<<>>} \cup Uris, im \in ListsOver(Uris, MaxImages),
     oks \in [1..(MaxImages + 2) -> BOOLEAN]}

\* registries batch_rename can find: every entry is a folder under its scanned
\* or its suggested name, a folder under a suggested name has a record, and
\* a folder may have been removed from the disk since
Registries ==
  {r \in [1..NumFolders -> {Entry(n, n, c) : n \in Names, c \in Cands \cup {NoInfo}}] :
     /\ \A i, j \in 1..NumFolders : i # j => r[i].name # r[j].name
     /\ \A i \in 1..NumFolders : r[i].name >= 100 => r[i].info # NoInfo}
FoldersOf(r, gone) ==
  [registry |-> r,
   disk |-> {r[i].path : i \in 1..NumFolders} \ gone,
   meta |-> [d \in Names |->
               IF \E i \in 1..NumFolders : r[i].path = d /\ d \notin gone
               THEN (CHOOSE e \in {r[i] : i \in 1..NumFolders} : e.path = d).info
               ELSE NoInfo],
   status |-> [i \in 1..NumFolders |->
                 IF r[i].info = NoInfo THEN "pending" ELSE "completed"]]
Renames ==
  {[folders |-> FoldersOf(r, gone), fails |-> f] :
     r \in Registries,
     gone \in SUBSET (1..NumFolders),
     f \in SUBSET (1..NumFolders)}

Calls ==
  {[fn |-> "sanitize_filename", in |-> s] : s \in FileNames}
  \cup {[fn |-> "AlbumInfo", in |-> Release(t, <<>>, <<>>, <<>>)] : t \in Titles}
  \cup {[fn |-> "get_suggested_folder_name",
         in |-> AlbumInfo(Release(t, y, <<>>, <<>>))] : t \in Titles, y \in Years}
  \cup {[fn |-> "round_trip", in |-> r] : r \in Records}
  \cup {[fn |-> "scan_folders", in |-> r] : r \in Roots}
  \cup {[fn |-> "process_release", in |-> d] : d \in Downloads}
  \cup {[fn |-> "batch_rename", in |-> r] : r \in Renames}
  \cup {[fn |-> "search", in |-> [query |-> q, response |-> r]] :
          q \in Queries, r \in Responses}

Return(v) == ret' = [done |-> TRUE, val |-> v]

Called(fn) == call.fn = fn /\ ~ret.done

Returned(fn) == call.fn = fn /\ ret.done

SanitizeFilename ==
  /\ Called("sanitize_filename")
  /\ Return(sanitize_filename(call.in))
  /\ UNCHANGED <<app, call>>

NewAlbumInfo ==
  /\ Called("AlbumInfo")
  /\ Return(AlbumInfo(call.in))
  /\ UNCHANGED <<app, call>>

GetSuggestedFolderName ==
  /\ Called("get_suggested_folder_name")
  /\ Return(get_suggested_folder_name(call.in))
  /\ UNCHANGED <<app, call>>

SaveAndLoad ==
  /\ Called("round_trip")
  /\ Return(RoundTrip(call.in))
  /\ UNCHANGED <<app, call>>

Search ==
  /\ Called("search")
  /\ Return(search(call.in.query, call.in.response))
  /\ UNCHANGED <<app, call>>

ScanFolders ==
  /\ Called("scan_folders")
  /\ Return(scan_folders(call.in))
  /\ UNCHANGED <<app, call>>

ProcessRelease ==
  /\ Called("process_release")
  /\ Return(download_images(call.in.album_info, call.in.oks))
  /\ UNCHANGED <<app, call>>

CallBatchRename ==
  /\ Called("batch_rename")
  /\ Return(batch_rename(call.in.folders, call.in.fails))
  /\ UNCHANGED <<app, call>>

FnInit ==
  /\ AppInit
  /\ call \in Calls
  /\ ret = NotReturned

FnNext ==
  \/ SanitizeFilename
  \/ NewAlbumInfo
  \/ GetSuggestedFolderName
  \/ SaveAndLoad
  \/ Search
  \/ ScanFolders
  \/ ProcessRelease
  \/ CallBatchRename

FnSpec == FnInit /\ [][FnNext]_vars

\* ------------------------------------------------------------------ claims
\* workflows suspended in waiting_for_selection.wait(timeout=300)
Waiters ==
  {b \in Batches : bw[b].pc \in {"wait", "blocked"}} \cup
  {SingleId(s) : s \in {t \in Singles : ss[t].pc \in {"wait", "blocked"}}}

\* C1: at no time are two disambiguation suspensions active: there are never
\* two prompts open, and never two workflows waiting on the shared
\* awaiting-decision flag / result slot.
C1_OneSuspension ==
  /\ Cardinality(prompts) <= 1
  /\ Cardinality(Waiters) <= 1

\* no workflow is running and no UI callback is pending
Quiescent ==
  /\ uiq = <<>>
  /\ uiReq = NoGrab
  /\ \A b \in Batches : bw[b].pc \in {"idle", "done", "crashed"}
  /\ \A s \in Singles : ss[s].pc \in {"idle", "done"}

\* C2: after any sequence of batch matching, single-entry re-search, manual
\* entry and rename operations has run to its end, an entry's status is
\* completed if and only if a record is attached to the entry.
C2_CompletedIffRecord ==
  Quiescent =>
    \A i \in 1..Len(registry) :
      status[i] = "completed" <=> registry[i].info # NoInfo

\* C3: the batch workflow never aborts early: a worker never ends while an
\* entry after the one it was working on still has no record.
C3_NeverAbortsEarly ==
  \A b \in Batches :
    bw[b].pc \in {"done", "crashed"} =>
      \A j \in (bw[b].idx + 1)..Len(registry) : registry[j].info # NoInfo

\* C4: when the user has confirmed a candidate in the prompt of a workflow,
\* the workflow goes on to acceptance with exactly that candidate once it has
\* read the result slot.
C4_ChoiceKept ==
  /\ \A b \in Batches :
       (bw[b].pc \in {"accept2", "clearflag"} /\ bw[b].conf # NoInfo)
         => bw[b].sel = bw[b].conf
  /\ \A s \in Singles :
       (ss[s].pc \in {"accept2", "finishing", "done"} /\ ss[s].conf # NoInfo)
         => ss[s].sel = ss[s].conf

\* batch workers whose process_folders thread is running
Running == {b \in Batches : bw[b].pc \notin {"idle", "done", "crashed"}}

\* C5: at most one background worker runs the batch matching workflow at any
\* time.
C5_OneWorker == Cardinality(Running) <= 1

\* threads inside a catalog request: search, or the details and image fetches
\* of process_release; the UI thread inside refresh_search counts as workflow 0
InFlight ==
  {b \in Batches : bw[b].pc \in {"search", "accept1", "accept2"}} \cup
  {SingleId(s) : s \in {t \in Singles : ss[t].pc \in {"search", "accept1", "accept2"}}} \cup
  (IF uiReq # NoGrab THEN {0} ELSE {})

\* C6: at most one catalog request is in flight at any time, counting the
\* batch worker, single-entry re-search threads and a re-query in the prompt.
C6_OneRequest == Cardinality(InFlight) <= 1

\* C7: a wait that timed out leaves the shared state as pressing cancel
\* does: when the workflow has read the slot, the slot is empty and the
\* prompt of the suspension is closed (on_cancel destroys it).
C7_TimeoutAsCancel ==
  /\ \A b \in Batches :
       (bw[b].to /\ bw[b].pc = "clearflag" /\ bw[b].sel = NoInfo)
         => /\ result = NoInfo
            /\ \A d \in prompts : Key(d) # <<b, bw[b].idx>>
  /\ \A s \in Singles :
       (ss[s].to /\ ss[s].pc = "done" /\ ss[s].sel = NoInfo)
         => \A d \in prompts : Key(d) # <<SingleId(s), ss[s].idx>>

\* C8: in the batch workflow the acceptance of the only result of a search
\* ends with the record built from that result attached, status completed
\* queued for the row, and the worker at its delay: no suspension is entered.
C8_OneResultCompletes ==
  [][\A b \in Batches :
       (bw[b].pc = "accept1" /\ bw'[b].pc # "accept1")
         => /\ registry'[bw[b].idx].info = <<Origin(bw[b].name), 1>>
            /\ \E k \in 1..Len(uiq') :
                 uiq'[k] = Event("status", b, bw[b].idx, "completed",
                                 <<Origin(bw[b].name), 1>>)
            /\ bw'[b].pc = "sleep"]_vars

\* C9: when the user has cancelled the prompt of a workflow, the outcome
\* depends only on the original result count and the prior record: nothing is
\* accepted; a batch entry is marked not-found after zero results and pending
\* otherwise; a re-searched entry is marked not-found after zero results,
\* else completed with its prior record, else pending.
C9_CancelOutcome ==
  /\ \A b \in Batches :
       (bw[b].canc /\ bw[b].pc \in {"accept2", "clearflag"})
         => /\ bw[b].pc = "clearflag"
            /\ bw[b].sel = NoInfo
  /\ \A s \in Singles :
       (ss[s].canc /\ ss[s].pc \in {"readsel", "accept2", "finishing", "done"})
         => /\ ss[s].pc = "done"
            /\ ss[s].sel = NoInfo

\* C10: a file-system error while persisting metadata is reported to the
\* user: a message is shown, or the callback that shows it is queued.
C10_ErrorReported ==
  \A u \in unreported :
    \E k \in 1..Len(uiq) : uiq[k].op = "error" /\ uiq[k].w = u[1]

\* a step of rename_folder or batch_rename
RenameStep ==
  \/ \E row \in 1..NumFolders, ok \in BOOLEAN : RenameFolder(row, ok)
  \/ \E fails \in SUBSET (1..NumFolders) : BatchRename(fails)

\* the suggested name of entry i is taken by a directory that this step
\* does not move away
Conflict(i) ==
  /\ registry[i].info # NoInfo
  /\ LET t == SuggestedName(registry[i].info) IN
       /\ t \in disk
       /\ \A j \in 1..Len(registry) :
            registry[j].path = t => registry'[j].path = t

\* C11: no rename, single or batch, moves a folder onto an existing
\* directory: a rename step loses no directory, and an entry whose
\* destination exists keeps its path, display name and record.
C11_NoOverwrite ==
  [][RenameStep =>
       /\ Cardinality(disk') = Cardinality(disk)
       /\ \A i \in 1..Len(registry) :
            Conflict(i) => registry'[i] = registry[i]]_vars

\* C11 case: two entries share a suggested name, one folder carries it after
\* a rename command and the other was left where it was
C11_Conflict ==
  \E i, j \in 1..Len(registry) :
    /\ i # j
    /\ cmds > 0
    /\ registry[i].info # NoInfo
    /\ registry[j].info = registry[i].info
    /\ registry[i].name = SuggestedName(registry[i].info)
    /\ registry[i].path \in disk
    /\ registry[j].name = j
    /\ registry[j].path \in disk

\* C12: a record saved and loaded again has the same performer, album title,
\* year, label names, catalog number, genre, style, notes, track list,
\* catalog id and country.
C12_RoundTripPreserves ==
  Returned("round_trip") =>
    /\ ret.val.artist = call.in.artist
    /\ ret.val.album_name = call.in.album_name
    /\ ret.val.year = call.in.year
    /\ ret.val.label_names = call.in.label_names
    /\ ret.val.catalog_no = call.in.catalog_no
    /\ ret.val.genre = call.in.genre
    /\ ret.val.style = call.in.style
    /\ ret.val.notes = call.in.notes
    /\ ret.val.tracklist = call.in.tracklist
    /\ ret.val.release_id = call.in.release_id
    /\ ret.val.country = call.in.country

\* C13: a record saved and loaded again has an empty image list and an
\* empty cover-image URI, whatever URIs it held.
C13_RoundTripDropsImages ==
  Returned("round_trip") =>
    /\ ret.val.images = <<>>
    /\ ret.val.cover_image = <<>>

\* C13 case: a record with a cover-image URI and an image list has been
\* saved and loaded
C13_HadImages ==
  /\ Returned("round_trip")
  /\ call.in.images # <<>>
  /\ call.in.cover_image # <<>>

\* C14: a record built from a raw title with " - " has the trimmed text
\* before the first " - " as performer and the trimmed rest as album title;
\* built from a title without " - " it has an empty performer and the
\* trimmed raw title as album title.
C14_TitleSplit ==
  Returned("AlbumInfo") =>
    LET t == call.in.title
        i == Find(t, Dash) IN
    IF i > 0
    THEN /\ ret.val.artist = Strip(SubSeq(t, 1, i - 1), Whitespace)
         /\ ret.val.album_name = Strip(SubSeq(t, i + 3, Len(t)), Whitespace)
    ELSE /\ ret.val.artist = <<>>
         /\ ret.val.album_name = Strip(t, Whitespace)

\* the parts of a record that are present, in the order of the rule
PresentParts(r) ==
  (IF r.artist # <<>> THEN <<sanitize_filename(r.artist)>> ELSE <<>>)
  \o (IF r.year # <<>> THEN <<r.year>> ELSE <<>>)
  \o (IF r.album_name # <<>> THEN <<sanitize_filename(r.album_name)>> ELSE <<>>)

\* C15: the suggested folder name is the sanitized raw title when performer
\* and album title are both empty, with or without a year, and otherwise the
\* sanitized join with " - " of sanitized performer, year if present and
\* sanitized album title.
C15_SuggestedNameRule ==
  Returned("get_suggested_folder_name") =>
    ret.val = IF call.in.artist = <<>> /\ call.in.album_name = <<>>
              THEN sanitize_filename(call.in.title)
              ELSE sanitize_filename(Join(PresentParts(call.in), Dash))

\* C15 as the code has it: the suggested folder name is the sanitized raw
\* title when performer, album title and year are all empty, and otherwise
\* the sanitized join with " - " of the parts that are present.
C15_SuggestedNameOfParts ==
  Returned("get_suggested_folder_name") =>
    ret.val = IF PresentParts(call.in) = <<>>
              THEN sanitize_filename(call.in.title)
              ELSE sanitize_filename(Join(PresentParts(call.in), Dash))

\* C15 case: a name has been suggested for a record that has a year but
\* neither performer nor album title
C15_YearOnly ==
  /\ Returned("get_suggested_folder_name")
  /\ call.in.artist = <<>>
  /\ call.in.album_name = <<>>
  /\ call.in.year # <<>>

\* the responses that are a transport or decode failure
SearchFailures ==
  {"ConnectionError", "Timeout", "HTTPError", "undecodable", "not_object",
   "null_results"}

\* C17: a catalog search whose request fails in transport or whose response
\* body cannot be decoded or is malformed returns an empty list and raises
\* no exception.
C17_SearchNeverRaises ==
  Returned("search") /\ call.in.response.kind \in SearchFailures =>
    /\ ret.val.out.raised = ""
    /\ ret.val.out.value = List(<<>>)

\* the subdirectories of a listing, in its order
SubDirs(entries) == SelectSeq(entries, LAMBDA e : e.is_dir)
Malformed == {"unparseable", "not_object", "bad_field"}

\* C18: a scan registers every subdirectory of the root folder, in order; a
\* folder whose metadata file is not JSON or is JSON of the wrong shape is
\* registered pending with no record; a folder is registered completed
\* exactly when its metadata file loads into a record.
C18_ScanToleratesMalformed ==
  Returned("scan_folders") /\ call.in.readable =>
    LET dirs == SubDirs(call.in.entries)
        reg == ret.val.album_folders
        tree == ret.val.tree IN
    /\ ~ret.val.failed
    /\ Len(reg) = Len(dirs) /\ Len(tree) = Len(dirs)
    /\ \A k \in 1..Len(dirs) :
         /\ reg[k].name = dirs[k].name /\ tree[k].name = dirs[k].name
         /\ dirs[k].file.kind \in Malformed =>
              tree[k].status = "pending" /\ reg[k].album_info = None
         /\ tree[k].status = "completed" <=> dirs[k].file.kind = "object"
         /\ tree[k].status = "completed" <=> reg[k].album_info # None
         /\ dirs[k].file.kind = "object" =>
              reg[k].album_info = from_dict(dirs[k].file.data)

\* C18 case: a scan has registered a folder with a malformed metadata file
\* and, after it, a folder whose metadata file loaded
C18_MalformedThenLoaded ==
  /\ Returned("scan_folders")
  /\ \E j, k \in 1..Len(call.in.entries) :
       /\ j < k
       /\ call.in.entries[j].is_dir /\ call.in.entries[j].file.kind \in Malformed
       /\ call.in.entries[k].is_dir /\ call.in.entries[k].file.kind = "object"
       /\ \E m \in 1..Len(ret.val.tree) :
            ret.val.tree[m].name = k /\ ret.val.tree[m].status = "completed"

\* the step that ends re-search s: the success, selection or error callback
Ends(s) == ss[s].pc # "done" /\ ss'[s].pc = "done"
Succeeds(s) == Ends(s) /\ uiq # <<>> /\ Head(uiq).op = "success"

\* C19: a re-search of an entry that has a record ends either with the
\* registry holding the new record (acceptance succeeded) or, when it was
\* cancelled or failed, with the registry holding the prior record and the
\* row shown as completed.
C19_ReSearchOutcome ==
  [][\A s \in Singles :
       Ends(s) /\ ss[s].existing # NoInfo =>
         IF Succeeds(s)
         THEN registry'[ss[s].idx].info = Head(uiq).a
         ELSE /\ registry'[ss[s].idx].info = ss[s].existing
              /\ status'[ss[s].idx] = "completed"]_vars

\* C20: the acceptance of one candidate requests no image URI twice,
\* whatever the cover URI, the image list and the outcome of each download.
C20_NoUriTwice ==
  Returned("process_release") =>
    \A i, j \in 1..Len(ret.val.requests) :
      i # j => ret.val.requests[i] # ret.val.requests[j]

\* C21: on acceptance the first image written is the cover file and every
\* further one is image_<n>.<ext>, numbered one after the other; the
\* extension of every file, the cover's too, is the one its source URI gives
\* (png, else gif, else webp, else jpg).
C21_ImageFileNames ==
  Returned("process_release") =>
    LET w == ret.val.writes IN
    \A k \in 1..Len(w) :
      /\ w[k].path.ext = Ext(w[k].url)
      /\ k = 1 => w[k].path.file = "cover"
      /\ k > 1 => w[k].path.file = "image"
      /\ k > 2 => w[k].path.n = w[k - 1].path.n + 1

\* the entries a returned batch rename found with a record, and those it moved
WithRecord == {i \in 1..Len(call.in.folders.registry) :
                 call.in.folders.registry[i].info # NoInfo}
Moved == {i \in 1..Len(call.in.folders.registry) :
            ret.val.registry[i] # call.in.folders.registry[i]}
\* entries whose destination is their own name, or a directory that exists
\* and is not moved away
Blocked ==
  {i \in WithRecord :
     LET e == call.in.folders.registry[i]
         new == SuggestedName(e.info) IN
     \/ new = e.name
     \/ /\ new \in call.in.folders.disk
        /\ \A j \in Moved : call.in.folders.registry[j].path # new}

\* C22: a batch rename moves only entries that have a record and a suggested
\* name other than their display name; every entry with a record is counted
\* once, as success, skipped or failed; an entry whose destination exists is
\* counted as skipped; entries without a record are counted nowhere and are
\* left as they were.
C22_BatchRenameCounts ==
  Returned("batch_rename") =>
    LET pre == call.in.folders
        post == ret.val IN
    /\ Len(post.registry) = Len(pre.registry)
    /\ post.rename_count + post.skipped_count + post.error_count
         = Cardinality(WithRecord)
    /\ post.rename_count = Cardinality(Moved)
    /\ \A i \in Moved :
         /\ i \in WithRecord
         /\ SuggestedName(pre.registry[i].info) # pre.registry[i].name
         /\ post.registry[i].name = SuggestedName(pre.registry[i].info)
    /\ Moved \cap Blocked = {}
    /\ post.skipped_count >= Cardinality(Blocked)
    /\ post.error_count <= Cardinality({i \in WithRecord \ (Moved \cup Blocked) :
                                          i \in call.in.fails
                                          \/ pre.registry[i].path \notin pre.disk})
    /\ \A i \in 1..Len(pre.registry) :
         i \notin WithRecord =>
           post.registry[i] = pre.registry[i] /\ post.status[i] = pre.status[i]

\* C22 case: a batch rename has moved one entry, skipped another because its
\* destination existed by then, and passed over none
C22_MovedAndSkipped ==
  /\ Returned("batch_rename")
  /\ ret.val.rename_count = 1
  /\ ret.val.skipped_count = 1
  /\ \E i \in WithRecord \ Moved :
       LET e == call.in.folders.registry[i] IN
       /\ SuggestedName(e.info) # e.name
       /\ SuggestedName(e.info) \in ret.val.disk

\* C23: a successful rename updates the entry in place: the entry at the same
\* index gets the new path and display name and keeps its record, the
\* registry keeps its length and order, no other entry is modified, and a
\* single rename moves one entry only.
C23_RenameInPlace ==
  [][RenameStep =>
       /\ Len(registry') = Len(registry)
       /\ \A i \in 1..Len(registry) :
            \/ registry'[i] = registry[i]
            \/ /\ registry[i].info # NoInfo
               /\ registry'[i] = Entry(SuggestedName(registry[i].info),
                                       SuggestedName(registry[i].info),
                                       registry[i].info)
               /\ registry[i].path \in disk
               /\ registry'[i].path \in disk'
       /\ (\E row \in 1..NumFolders, ok \in BOOLEAN : RenameFolder(row, ok)) =>
            Cardinality({i \in 1..Len(registry) : registry'[i] # registry[i]}) <= 1]_vars

\* C23 case: the second entry has been renamed to its suggested name while
\* the first entry is still the folder found by the scan
C23_SecondRenamed ==
  /\ Len(registry) >= 2
  /\ registry[1] = Entry(1, 1, registry[1].info)
  /\ registry[2].info # NoInfo
  /\ registry[2].name = SuggestedName(registry[2].info)
  /\ registry[2].path = registry[2].name
  /\ registry[2].path \in disk

\* worker b issues a search in this step
IssuesSearch(b) == bw[b].pc # "search" /\ bw'[b].pc = "search"

Attempting ==
  {"search", "accept1", "waitflag", "setflag", "post", "wait", "blocked",
   "woken", "read", "accept2", "clearflag"}

\* C25: a batch worker that finishes an attempted entry, by whatever branch,
\* goes to its delay (or ends on an uncaught exception); it issues a search
\* only at the head of an iteration, which it reaches from the start of the
\* run, from the delay, or from passing over an entry: two searches of one
\* run are separated by a delay.
C25_DelayBetweenSearches ==
  [][\A b \in Batches :
       /\ (bw[b].pc \in Attempting /\ bw'[b].pc \notin Attempting)
            => bw'[b].pc \in {"sleep", "crashed"}
       /\ IssuesSearch(b) => bw[b].pc = "iter"
       /\ (bw[b].pc # "iter" /\ bw'[b].pc = "iter")
            => bw[b].pc \in {"idle", "sleep"}]_vars

\* C25 case: the only workflow started is one batch run; its wait for the
\* first entry timed out and it is searching the second entry
C25_SearchAfterTimeout ==
  \E b \in Batches :
    /\ cmds = 1
    /\ timeouts = 1
    /\ bw[b].pc = "search"
    /\ bw[b].idx = 2

\* C26: a candidate chosen in a prompt is applied only to the entry the
\* prompt was posted for: a workflow that goes on to acceptance after its
\* suspension holds a candidate found for the folder it searched.
C26_ChoiceForOwnEntry ==
  /\ \A b \in Batches :
       bw[b].pc = "accept2" => bw[b].sel[1] = Origin(bw[b].name)
  /\ \A s \in Singles :
       ss[s].pc = "accept2" => ss[s].sel[1] = Origin(ss[s].name)

\* a wait is blocked and the model has no timeout left to end it
Starved ==
  /\ timeouts = MaxTimeouts
  /\ \/ \E b \in Batches : bw[b].pc = "blocked"
     \/ \E s \in Singles : ss[s].pc = "blocked"

\* a workflow waits for the flag to clear: the worker in its sleep loop, a
\* re-search in its after(100) retries
Awaiting ==
  \/ \E b \in Batches : bw[b].pc = "waitflag"
  \/ \E s \in Singles : ss[s].pc = "retry"

C28_NoneLeftSearching ==
  Quiescent => \A i \in 1..Len(registry) : status[i] # "searching"

\* C29: every write a matching workflow makes to registry index i concerns
\* the folder index i holds at that time: a step that attaches a record to
\* index i leaves the path and the display name of index i as they are.
C29_WriteConcernsHeldFolder ==
  [][\A i \in 1..Len(registry) :
       registry'[i].info # registry[i].info =>
         /\ registry'[i].path = registry[i].path
         /\ registry'[i].name = registry[i].name]_vars

\* C30: after any sequence of batch matching, re-search, manual entry and
\* rename operations, every registry entry with a record has its
\* persisted-metadata file in the folder at the entry's path.
C30_RecordHasFile ==
  Quiescent =>
    \A i \in 1..Len(registry) :
      registry[i].info # NoInfo =>
        /\ registry[i].path \in disk
        /\ meta[registry[i].path] # NoInfo

\* C16: sanitize_filename is idempotent: sanitizing its result again
\* changes nothing.
C16_SanitizeIdempotent ==
  Returned("sanitize_filename") => sanitize_filename(ret.val) = ret.val

\* C16 case: a name with an illegal character and a leading space or period
\* has been sanitized and lost more than one character
C16_Sanitized ==
  /\ Returned("sanitize_filename")
  /\ \E i \in 1..Len(call.in) : call.in[i] \in IllegalChars
  /\ call.in # <<>> /\ call.in[1] \in {" ", "."}
  /\ Len(ret.val) < Len(call.in) - 1

====
